---- MODULE Spec2Model ----
(***************************************************************************)
(* CHILLAX ice-photo analysis: photo_processing.py (slice_photo,           *)
(* rolling_average, leading_baseline, std_dev_pulsefinding) and the        *)
(* script ice_photo_measuring.py that runs them over a directory of        *)
(* photos.                                                                 *)
(*                                                                         *)
(* Numbers.  The code computes in float64.  The model computes in exact    *)
(* rational arithmetic: a real is a record [num, den] in lowest terms with *)
(* den > 0, and NaN is [num |-> 0, den |-> 0].  A standard deviation is    *)
(* the square root of a rational and is held by its square, [sq |-> r];    *)
(* the two comparisons the code makes against a multiple of it are decided *)
(* exactly by squaring.  Floating-point rounding is not modelled.          *)
(*                                                                         *)
(* Arrays.  A 1-D array is a sequence; Python index k is position k+1.     *)
(* A 2-D array is a sequence of rows.  An image is [rows, cols, pix] with  *)
(* pix a function of <<row, col>>.                                         *)
(***************************************************************************)
EXTENDS Integers, Sequences

VARIABLES pc, args, ret,
          photos, i, photo_slices, datetimes, baseline, std,
          processed_slices, rqs, results

vars == <<pc, args, ret, photos, i, photo_slices, datetimes, baseline, std,
          processed_slices, rqs, results>>

scriptVars == <<photos, i, photo_slices, datetimes, baseline, std,
                processed_slices, rqs, results>>

-----------------------------------------------------------------------------
(* Exact arithmetic *)

Abs(n) == IF n < 0 THEN -n ELSE n

Min(a, b) == IF a < b THEN a ELSE b

Max(a, b) == IF a > b THEN a ELSE b

RECURSIVE GCD(_, _)
GCD(a, b) == IF b = 0 THEN a ELSE GCD(b, a % b)

NaN == [num |-> 0, den |-> 0]

IsNaN(x) == x.den = 0

Rat(n, d) ==
    IF d = 0 THEN NaN
    ELSE LET s == IF d < 0 THEN -1 ELSE 1
             g == GCD(Abs(n), Abs(d))
         IN  [num |-> (s * n) \div g, den |-> (s * d) \div g]

RInt(n) == [num |-> n, den |-> 1]

RAdd(x, y) ==
    IF IsNaN(x) \/ IsNaN(y) THEN NaN
    ELSE Rat(x.num * y.den + y.num * x.den, x.den * y.den)

RSub(x, y) ==
    IF IsNaN(x) \/ IsNaN(y) THEN NaN
    ELSE Rat(x.num * y.den - y.num * x.den, x.den * y.den)

RMul(x, y) ==
    IF IsNaN(x) \/ IsNaN(y) THEN NaN
    ELSE Rat(x.num * y.num, x.den * y.den)

RDivInt(x, n) == IF IsNaN(x) THEN NaN ELSE Rat(x.num, x.den * n)

\* IEEE comparisons: any comparison with NaN is false.
RLt(x, y) == ~IsNaN(x) /\ ~IsNaN(y) /\ x.num * y.den < y.num * x.den

RGt(x, y) == RLt(y, x)

RECURSIVE RSum(_)
RSum(s) == IF Len(s) = 0 THEN RInt(0) ELSE RAdd(Head(s), RSum(Tail(s)))

\* x > thresh * std_dev, for thresh >= 0 and std_dev = sqrt(std_dev.sq) >= 0.
GtStd(x, thresh, std_dev) ==
    /\ ~IsNaN(x)
    /\ ~IsNaN(std_dev.sq)
    /\ x.num > 0
    /\ RGt(RMul(x, x), RMul(RInt(thresh * thresh), std_dev.sq))

\* x < thresh * std_dev, for thresh >= 0 and std_dev = sqrt(std_dev.sq) >= 0.
LtStd(x, thresh, std_dev) ==
    /\ ~IsNaN(x)
    /\ ~IsNaN(std_dev.sq)
    /\ \/ x.num < 0
       \/ RLt(RMul(x, x), RMul(RInt(thresh * thresh), std_dev.sq))

-----------------------------------------------------------------------------
(* numpy / Python array primitives *)

\* A slice bound as Python normalises it against a length n.
SliceIndex(k, n) == IF k < 0 THEN Max(k + n, 0) ELSE Min(k, n)

\* s[a:b]
PySlice(s, a, b) ==
    LET lo == SliceIndex(a, Len(s))
        hi == SliceIndex(b, Len(s))
    IN  IF lo < hi THEN SubSeq(s, lo + 1, hi) ELSE << >>

\* s[a:]
PySliceFrom(s, a) == PySlice(s, a, Len(s))

\* np.argmax of a non-empty boolean array: the first True, 0 when all are False.
argmax(mask) ==
    IF \E k \in 1..Len(mask) : mask[k]
    THEN (CHOOSE k \in 1..Len(mask) :
              mask[k] /\ \A m \in 1..(k - 1) : ~mask[m]) - 1
    ELSE 0

-----------------------------------------------------------------------------
(* photo_processing.std_dev_pulsefinding *)

DefaultRisingThresh == 5

DefaultFallingThresh == 3

\* rising_thresh=3.0, falling_thresh=1.0 as the script passes them.
ScriptRisingThresh == 3

ScriptFallingThresh == 1

ValueError(line) == [kind |-> "ValueError", line |-> line]

\* A non-strict rising comparison, pulse_window >= rising_thresh*std_dev.
RisingMaskNonStrict(pulse_window, rising_thresh, std_dev) ==
    [k \in 1..Len(pulse_window) |->
        ~IsNaN(pulse_window[k]) /\ ~LtStd(pulse_window[k], rising_thresh, std_dev)]

\* pulse_window > rising_thresh*std_dev
RisingMask(pulse_window, rising_thresh, std_dev) ==
    [k \in 1..Len(pulse_window) |-> GtStd(pulse_window[k], rising_thresh, std_dev)]

\* waveform[pulse_start+1:] < falling_thresh*std_dev
FallingMask(tail, falling_thresh, std_dev) ==
    [k \in 1..Len(tail) |-> LtStd(tail[k], falling_thresh, std_dev)]

\* The parameter frame is never read.
std_dev_pulsefinding(waveform, std_dev, trigger_sample, search_window, rising_thresh, falling_thresh) ==
    LET window_start == trigger_sample - search_window
        window_end   == trigger_sample + search_window
        pulse_window == PySlice(waveform, window_start, window_end)
    IN  IF Len(pulse_window) = 0
        THEN ValueError(110)    \* argmax of an empty array
        ELSE
          LET pulse_start ==
                  argmax(RisingMask(pulse_window, rising_thresh, std_dev))
                  + window_start
              tail == PySliceFrom(waveform, pulse_start + 1)
              falling == FallingMask(tail, falling_thresh, std_dev)
          IN  IF Len(tail) = 0
              THEN ValueError(113)    \* argmax of an empty array
              ELSE [kind  |-> "return",
                    start |-> pulse_start,
                    end   |-> IF \E k \in 1..Len(falling) : falling[k]
                              THEN argmax(falling) + pulse_start + 1
                              ELSE Len(waveform) - 1]

-----------------------------------------------------------------------------
(* photo_processing.slice_photo *)

\* The literal divisor of line 28.
SliceDivisor == 200

IndexError(line) == [kind |-> "IndexError", line |-> line]

\* numpy accepts an index k on an axis of size n when -n <= k < n.
Indexable(A, r, c) ==
    /\ -A.rows <= r /\ r < A.rows
    /\ -A.cols <= c /\ c < A.cols

\* A[r, c]; a negative index counts from the end of its axis.
Index2(A, r, c) == A.pix[<<r % A.rows, c % A.cols>>]

\* int((i+1)/2) and int(i/2) for i >= 0.
SliceRow(slice_start_x, sl, j) == slice_start_x + j - ((sl + 1) \div 2)

SliceCol(slice_start_y, sl, j) == slice_start_y + (sl \div 2) + j

\* photo_slice[j] after the iterations i = 0 .. n-1 of the outer loop.
RECURSIVE SliceAccum(_, _, _, _, _)
SliceAccum(A, n, j, slice_start_x, slice_start_y) ==
    IF n = 0 THEN RInt(0)
    ELSE RAdd(SliceAccum(A, n - 1, j, slice_start_x, slice_start_y),
              Rat(Index2(A, SliceRow(slice_start_x, n - 1, j),
                            SliceCol(slice_start_y, n - 1, j)),
                  SliceDivisor))

slice_photo(A, num_slices, slice_length, slice_start_x, slice_start_y) ==
    IF \E sl \in 0..(num_slices - 1), j \in 0..(slice_length - 1) :
           ~Indexable(A, SliceRow(slice_start_x, sl, j),
                         SliceCol(slice_start_y, sl, j))
    THEN IndexError(28)
    ELSE [kind |-> "return",
          photo_slice |->
              [k \in 1..slice_length |->
                  SliceAccum(A, num_slices, k - 1, slice_start_x, slice_start_y)]]

-----------------------------------------------------------------------------
(* photo_processing.leading_baseline *)

NameError(line) == [kind |-> "NameError", line |-> line]

\* np.mean of a 1-D slice; NaN (with a RuntimeWarning) when it is empty.
Mean(s) == IF Len(s) = 0 THEN NaN ELSE RDivInt(RSum(s), Len(s))

\* np.std of a 1-D slice, the population standard deviation, by its square.
Std(s) ==
    [sq |-> Mean([k \in 1..Len(s) |->
                     RMul(RSub(s[k], Mean(s)), RSub(s[k], Mean(s)))])]

\* linear=True reads the names scipy and lin_fit, which the module neither
\* imports nor defines: the first iteration of the loop raises NameError.
leading_baseline(waveform, trigger_sample, start_sample, pretr_excl_sampl, linear) ==
    IF linear
    THEN IF Len(waveform) = 0
         THEN [kind |-> "return", means |-> << >>, stds |-> << >>]
         ELSE NameError(73)
    ELSE [kind  |-> "return",
          means |-> [r \in 1..Len(waveform) |->
                        Mean(PySlice(waveform[r], start_sample,
                                     trigger_sample - pretr_excl_sampl))],
          stds  |-> [r \in 1..Len(waveform) |->
                        Std(PySlice(waveform[r], start_sample,
                                    trigger_sample - pretr_excl_sampl))]]

-----------------------------------------------------------------------------
(* photo_processing.rolling_average, one row at a time (every operation of  *)
(* the function acts along axis 1)                                          *)

\* np.cumsum(np.insert(x,0,0,axis=1),axis=1): entry k is x[0] + ... + x[k-1].
RECURSIVE CumSum(_)
CumSum(row) ==
    IF Len(row) = 0 THEN <<RInt(0)>>
    ELSE LET c == CumSum(SubSeq(row, 1, Len(row) - 1))
         IN  Append(c, RAdd(c[Len(c)], row[Len(row)]))

\* A window sum divided by 2*half_window, one short of the window's size.
AveragedShortDivisor(row, half_window) ==
    LET cumsum == CumSum(row)
        hi == PySliceFrom(cumsum, 2 * half_window + 1)
        lo == PySlice(cumsum, 0, -(2 * half_window + 1))
    IN  [k \in 1..Len(hi) |-> RDivInt(RSub(hi[k], lo[k]), 2 * half_window)]

\* (cumsum[:,2*half_window+1:] - cumsum[:,:-(2*half_window+1)])
\*     / float(2*half_window+1)
Averaged(row, half_window) ==
    LET cumsum == CumSum(row)
        hi == PySliceFrom(cumsum, 2 * half_window + 1)
        lo == PySlice(cumsum, 0, -(2 * half_window + 1))
    IN  [k \in 1..Len(hi) |-> RDivInt(RSub(hi[k], lo[k]), 2 * half_window + 1)]

rolling_average(x, half_window) ==
    LET averaged == [r \in 1..Len(x) |-> Averaged(x[r], half_window)]
    IN  IF \E r \in 1..Len(x) : Len(averaged[r]) = 0
        THEN IndexError(46)    \* averaged[:,0] on an axis of size 0
        ELSE [kind |-> "return",
              value |->
                  [r \in 1..Len(x) |->
                      LET averaged_left ==
                              [k \in 1..half_window |-> averaged[r][1]]
                          averaged_right ==
                              [k \in 1..half_window |->
                                  averaged[r][Len(averaged[r])]]
                      IN  averaged_left \o averaged[r] \o averaged_right]]

-----------------------------------------------------------------------------
(* ice_photo_measuring.py *)

ScriptStartSample == 0

\* Python's builtin max over a non-empty sequence: the first greatest element.
RECURSIVE PyMax(_)
PyMax(s) ==
    IF Len(s) = 1 THEN s[1]
    ELSE LET m == PyMax(SubSeq(s, 1, Len(s) - 1))
         IN  IF RGt(s[Len(s)], m) THEN s[Len(s)] ELSE m

\* The slice taken one sample late, processed_slices[i][start+1:end].
PulseWindowAfterStart(processed, start, end) == PySlice(processed, start + 1, end)

\* processed_slices[i][start:end]
PulseWindow(processed, start, end) == PySlice(processed, start, end)

-----------------------------------------------------------------------------
(* Bounds and input sets *)

MaxLen == 3

MaxStd == 1

\* Sample values around the thresholds 0, 1, 3 and 5 times a std_dev of 0 or 1.
Samples == {-1, 0, 1, 3, 4, 6}

MaxDim == 3

MaxNumSlices == 3

MaxSliceLength == 2

Pixels == {0, 100}

\* The images of a given shape with pixels drawn from Pixels.
Images(rows, cols) ==
    {[rows |-> rows, cols |-> cols, pix |-> f] :
        f \in [(0..(rows - 1)) \X (0..(cols - 1)) -> Pixels]}

MaxRows == 2

MaxExcl == 1

BaselineSamples == {0, 1, 3}

\* The batches of 1..maxRows waveforms of one length n over the values S.
Batches(S, n, maxRows) ==
    UNION {[1..r -> [1..n -> S]] : r \in 1..maxRows}

MaxRollLen == 5

MaxRollRows == 1

MaxHalfWindow == 2

RollSamples == {0, 1}

SeqsOf(S, n) == UNION {[1..m -> S] : m \in 0..n}

RSeq(s) == [k \in 1..Len(s) |-> RInt(s[k])]

RBatch(x) == [r \in 1..Len(x) |-> RSeq(x[r])]

NoCall == [fn |-> "none"]

NoRet == [kind |-> "none"]

NotSaved == [saved |-> FALSE, rows |-> << >>]

ScriptIdle ==
    /\ photos = << >>
    /\ i = 0
    /\ photo_slices = << >>
    /\ datetimes = << >>
    /\ baseline = << >>
    /\ std = << >>
    /\ processed_slices = << >>
    /\ rqs = << >>
    /\ results = NotSaved

-----------------------------------------------------------------------------
(* A call of std_dev_pulsefinding on arbitrary inputs *)

InitPulse ==
    /\ pc = "call"
    /\ ret = NoRet
    /\ ScriptIdle
    /\ \E w \in SeqsOf(Samples, MaxLen), s \in 0..MaxStd,
          t \in 0..MaxLen, sw \in 0..MaxLen,
          th \in {<<DefaultRisingThresh, DefaultFallingThresh>>,
                  <<ScriptRisingThresh, ScriptFallingThresh>>} :
          /\ t <= Len(w)
          /\ sw <= Len(w)
          /\ args = [fn |-> "std_dev_pulsefinding",
                     waveform |-> RSeq(w),
                     std_dev |-> [sq |-> RInt(s * s)],
                     trigger_sample |-> t,
                     search_window |-> sw,
                     rising_thresh |-> th[1],
                     falling_thresh |-> th[2]]

Call_std_dev_pulsefinding ==
    /\ pc = "call"
    /\ args.fn = "std_dev_pulsefinding"
    /\ ret' = std_dev_pulsefinding(args.waveform, args.std_dev,
                                   args.trigger_sample, args.search_window,
                                   args.rising_thresh, args.falling_thresh)
    /\ pc' = "done"
    /\ UNCHANGED <<args, scriptVars>>

NextPulse == Call_std_dev_pulsefinding

SpecPulse == InitPulse /\ [][NextPulse]_vars

-----------------------------------------------------------------------------
(* Claims about std_dev_pulsefinding.  The inputs of InitPulse are         *)
(* integers, so the claims are stated in integer arithmetic, independently *)
(* of the operators the function is modelled with.                         *)

PulseDone == pc = "done" /\ args.fn = "std_dev_pulsefinding"

ProfileLen == Len(args.waveform)

WindowLo == args.trigger_sample - args.search_window

WindowHi == args.trigger_sample + args.search_window

WindowInside == 0 <= WindowLo /\ WindowHi <= ProfileLen

\* The absolute indices of profile[WindowLo : WindowHi].
WindowIdx ==
    {k \in 0..(ProfileLen - 1) :
        SliceIndex(WindowLo, ProfileLen) <= k /\ k < SliceIndex(WindowHi, ProfileLen)}

StdInt == CHOOSE s \in 0..args.std_dev.sq.num : s * s = args.std_dev.sq.num

Sample(k) == args.waveform[k + 1].num

Crosses(k) == Sample(k) > args.rising_thresh * StdInt

Below(k) == Sample(k) < args.falling_thresh * StdInt

HasCrossing == \E k \in WindowIdx : Crosses(k)

FirstCrossing == CHOOSE k \in WindowIdx :
                     Crosses(k) /\ \A m \in WindowIdx : m < k => ~Crosses(m)

FallsAfter(st) == {k \in (st + 1)..(ProfileLen - 1) : Below(k)}

FirstFallAfter(st) ==
    IF FallsAfter(st) = {} THEN ProfileLen - 1
    ELSE CHOOSE k \in FallsAfter(st) : \A m \in FallsAfter(st) : k <= m

\* C1: when no sample of the search window strictly exceeds
\* rising_thresh*std_dev, the detector reports a no-pulse-found condition and
\* returns no ordinary (start_index, end_index) pair.  Stated for the calls
\* whose window lies inside the profile, where no index wraps around.
C1_NoPulseReported ==
    (PulseDone /\ WindowInside /\ ~HasCrossing) => ret.kind # "return"

\* C2: with the search window inside the profile and a sample in it strictly
\* above rising_thresh*std_dev, the start_index returned is the smallest index
\* of the window whose sample is strictly above the threshold; the only call
\* that returns no start_index is the one whose first crossing is the last
\* sample of the profile.
C2_StartIsFirstCrossing ==
    (PulseDone /\ WindowInside /\ HasCrossing) =>
        /\ ret.kind = "return" => ret.start = FirstCrossing
        /\ ret.kind # "return" => FirstCrossing = ProfileLen - 1

\* A call that returned a start after the first index of its window, where
\* the sample at the first index equals the rising threshold exactly.
C2_Witness ==
    /\ PulseDone /\ WindowInside /\ HasCrossing
    /\ ret.kind = "return"
    /\ ret.start > WindowLo
    /\ StdInt > 0
    /\ Sample(WindowLo) = args.rising_thresh * StdInt

\* C3: for every start_index found in the window, the last profile index
\* included, the call returns end_index = the smallest k with
\* start_index < k <= N-1 and profile[k] < falling_thresh*std_dev, and N-1
\* when there is no such k.
C3_EndIsFirstFall ==
    (PulseDone /\ WindowInside /\ HasCrossing) =>
        /\ ret.kind = "return"
        /\ ret.end = FirstFallAfter(FirstCrossing)

\* C4: every call whose window lies inside the profile and holds a rising
\* crossing returns a pair with 0 <= start_index < end_index <= N-1.
C4_PairOrdered ==
    (PulseDone /\ WindowInside /\ HasCrossing) =>
        /\ ret.kind = "return"
        /\ 0 <= ret.start
        /\ ret.start < ret.end
        /\ ret.end <= ProfileLen - 1

-----------------------------------------------------------------------------
(* A call of slice_photo on arbitrary inputs *)

InitSlice ==
    /\ pc = "call"
    /\ ret = NoRet
    /\ ScriptIdle
    /\ \E rows \in 2..MaxDim, cols \in 2..MaxDim :
       \E A \in Images(rows, cols), ns \in 1..MaxNumSlices,
          len \in 0..MaxSliceLength, sx \in (-1)..(MaxDim - 1),
          sy \in (-1)..(MaxDim - 1) :
          args = [fn |-> "slice_photo", A |-> A, num_slices |-> ns,
                  slice_length |-> len, slice_start_x |-> sx,
                  slice_start_y |-> sy]

Call_slice_photo ==
    /\ pc = "call"
    /\ args.fn = "slice_photo"
    /\ ret' = slice_photo(args.A, args.num_slices, args.slice_length,
                          args.slice_start_x, args.slice_start_y)
    /\ pc' = "done"
    /\ UNCHANGED <<args, scriptVars>>

NextSlice == Call_slice_photo

SpecSlice == InitSlice /\ [][NextSlice]_vars

(* Claims about slice_photo *)

SliceDone == pc = "done" /\ args.fn = "slice_photo"

\* The coordinates the geometry addresses, <<row, col>> for slice sl, sample j.
\* Distinct slices address distinct coordinates at one j, so the set has
\* num_slices elements.
Sampled(j) ==
    {<<args.slice_start_x + j - ((sl + 1) \div 2),
       args.slice_start_y + (sl \div 2) + j>> : sl \in 0..(args.num_slices - 1)}

InImage(rc) ==
    /\ 0 <= rc[1] /\ rc[1] < args.A.rows
    /\ 0 <= rc[2] /\ rc[2] < args.A.cols

GeometryValid ==
    \A j \in 0..(args.slice_length - 1) : \A rc \in Sampled(j) : InImage(rc)

RECURSIVE SumPixels(_)
SumPixels(S) ==
    IF S = {} THEN 0
    ELSE LET rc == CHOOSE x \in S : TRUE
         IN  args.A.pix[rc] + SumPixels(S \ {rc})

\* C6: for every valid geometry slice_photo returns a profile of length
\* slice_length whose value at j is the sum of the num_slices sampled pixels
\* divided by num_slices, so it lies between the least and the greatest
\* sampled pixel.
C6_ProfileIsMean ==
    (SliceDone /\ GeometryValid) =>
        /\ ret.kind = "return"
        /\ Len(ret.photo_slice) = args.slice_length
        /\ \A j \in 0..(args.slice_length - 1) :
              /\ ret.photo_slice[j + 1] =
                     Rat(SumPixels(Sampled(j)), args.num_slices)
              /\ \E rc \in Sampled(j) :
                     ~RLt(ret.photo_slice[j + 1], RInt(args.A.pix[rc]))
              /\ \E rc \in Sampled(j) :
                     ~RGt(ret.photo_slice[j + 1], RInt(args.A.pix[rc]))

\* C7: whenever the geometry addresses a coordinate outside the image,
\* slice_photo fails with an out-of-bounds error and returns no profile.
C7_OutOfBoundsFails ==
    (SliceDone /\ ~GeometryValid) => ret.kind = "IndexError"

-----------------------------------------------------------------------------
(* A call of leading_baseline on arbitrary inputs *)

InitBaseline ==
    /\ pc = "call"
    /\ ret = NoRet
    /\ ScriptIdle
    /\ \E n \in 1..MaxLen :
       \E x \in Batches(BaselineSamples, n, MaxRows),
          t \in 0..(MaxLen + 1), st \in (-1)..MaxLen, ex \in 0..MaxExcl,
          lin \in BOOLEAN :
          args = [fn |-> "leading_baseline", waveform |-> RBatch(x),
                  profile_length |-> n,
                  trigger_sample |-> t, start_sample |-> st,
                  pretr_excl_sampl |-> ex, linear |-> lin]

Call_leading_baseline ==
    /\ pc = "call"
    /\ args.fn = "leading_baseline"
    /\ ret' = leading_baseline(args.waveform, args.trigger_sample,
                               args.start_sample, args.pretr_excl_sampl,
                               args.linear)
    /\ pc' = "done"
    /\ UNCHANGED <<args, scriptVars>>

NextBaseline == Call_leading_baseline

SpecBaseline == InitBaseline /\ [][NextBaseline]_vars

(* Claims about leading_baseline *)

BaselineDone == pc = "done" /\ args.fn = "leading_baseline"

BaselineLo == args.start_sample

BaselineHi == args.trigger_sample - args.pretr_excl_sampl

\* The baseline window [start_sample, trigger_sample - pretr_excl_sampl) is
\* non-empty and lies within [0, profile_length).
BaselineWindowValid ==
    /\ BaselineLo < BaselineHi
    /\ 0 <= BaselineLo
    /\ BaselineHi <= args.profile_length

\* C8: when the baseline window is empty or not contained in
\* [0, profile_length), leading_baseline fails with an error and returns no
\* (means, stds) pair.
C8_InvalidWindowFails ==
    (BaselineDone /\ ~BaselineWindowValid) => ret.kind # "return"

-----------------------------------------------------------------------------
(* A call of rolling_average on arbitrary inputs *)

InitRolling ==
    /\ pc = "call"
    /\ ret = NoRet
    /\ ScriptIdle
    /\ \E n \in 0..MaxRollLen :
       \E x \in Batches(RollSamples, n, MaxRollRows), h \in 0..MaxHalfWindow :
          args = [fn |-> "rolling_average", x |-> RBatch(x),
                  profile_length |-> n, half_window |-> h]

Call_rolling_average ==
    /\ pc = "call"
    /\ args.fn = "rolling_average"
    /\ ret' = rolling_average(args.x, args.half_window)
    /\ pc' = "done"
    /\ UNCHANGED <<args, scriptVars>>

NextRolling == Call_rolling_average

SpecRolling == InitRolling /\ [][NextRolling]_vars

(* Claims about rolling_average *)

RollingDone == pc = "done" /\ args.fn = "rolling_average"

\* x[r][p-h] + ... + x[r][p+h], in integers (Python indices).
RECURSIVE WindowSum(_, _, _)
WindowSum(r, lo, hi) ==
    IF lo > hi THEN 0 ELSE args.x[r][lo + 1].num + WindowSum(r, lo + 1, hi)

-----------------------------------------------------------------------------
(* The script ice_photo_measuring.py over a directory of photos.           *)
(*                                                                         *)
(* The geometry and the sample positions of the script are scaled down,    *)
(* keeping their order: 0 = start_sample < trigger_sample -                *)
(* pretr_excl_sampl <= trigger_sample - search_window < trigger_sample +   *)
(* search_window < slice_length (0 < 200 <= 240 < 360 < 450 in the code).  *)

\* num_slices=200
DefaultNumSlices == 2

\* slice_length=450
DefaultSliceLength == 9

\* slice_start_x=950
DefaultSliceStartX == 1

\* slice_start_y=2150
DefaultSliceStartY == 0

\* trigger_sample 300
ScriptTriggerSample == 5

\* pretr_excl_sampl 100
ScriptPretrExclSampl == 2

\* search_window 60
ScriptSearchWindow == 1

MaxPhotos == 2

FullRows == DefaultSliceStartX + DefaultSliceLength

FullCols == DefaultSliceStartY + DefaultSliceLength + DefaultNumSlices

\* The sample index whose slices pass through pixel <<r, c>>.
SampleAt(r, c) == (r + c - DefaultSliceStartX - DefaultSliceStartY + 1) \div 2

\* Pixel grain that differs between neighbouring slices.
Grain(r, c) == 2 * ((r + c) % 2)

\* Brightness of the clear region, uneven from sample to sample.
Quiet(j) == 10 + 2 * (j % 2)

\* Brightness along the slice direction for each kind of photo.
Brightness(kind, j) ==
    CASE kind = "flat"    -> Quiet(j)
      [] kind = "dark"    -> 10
      [] kind = "small"   -> Quiet(j)
      [] kind = "plateau" -> IF j < ScriptTriggerSample THEN Quiet(j)
                             ELSE IF j = ScriptTriggerSample THEN 100 ELSE 0
      [] kind = "peak"    -> IF j < ScriptTriggerSample THEN Quiet(j)
                             ELSE IF j = ScriptTriggerSample THEN 200
                             ELSE IF j = ScriptTriggerSample + 1 THEN 100
                             ELSE 0
      [] kind = "to_end"  -> IF j < ScriptTriggerSample THEN Quiet(j) ELSE 100
      [] kind = "early"   -> IF j < ScriptTriggerSample - ScriptSearchWindow
                             THEN Quiet(j)
                             ELSE IF j <= ScriptTriggerSample THEN 100 ELSE 0

PhotoKinds == {"flat", "dark", "small", "plateau", "peak", "to_end", "early"}

\* A decoded grayscale photo.  The photo of kind "small" is one row short of
\* what the default geometry addresses.
Photo(kind) ==
    LET rows == IF kind = "small" THEN FullRows - 1 ELSE FullRows
    IN  [rows |-> rows, cols |-> FullCols,
         pix  |-> [rc \in (0..(rows - 1)) \X (0..(FullCols - 1)) |->
                      Brightness(kind, SampleAt(rc[1], rc[2]))
                      + Grain(rc[1], rc[2])]]

\* os.listdir(filepath): the files in listing order, each with the timestamp
\* its name encodes and the image it decodes to.
Listings ==
    UNION {[1..n -> PhotoKinds] : n \in 0..MaxPhotos}

Init ==
    /\ args = NoCall
    /\ ret = NoRet
    /\ \E kinds \in Listings :
          /\ photos = [k \in 1..Len(kinds) |->
                          [datetime |-> k, kind |-> kinds[k],
                           image |-> Photo(kinds[k])]]
          /\ photo_slices = [k \in 1..Len(kinds) |->
                                [j \in 1..DefaultSliceLength |-> RInt(0)]]
    /\ i = 0
    /\ datetimes = << >>
    /\ baseline = << >>
    /\ std = << >>
    /\ processed_slices = << >>
    /\ rqs = << >>
    /\ results = NotSaved
    /\ pc = "load"

\* Lines 15-23: one iteration of the loading loop.  An exception is not
\* caught anywhere in the script and ends the run.
LoadPhoto ==
    /\ pc = "load"
    /\ i < Len(photos)
    /\ datetimes' = Append(datetimes, photos[i + 1].datetime)
    /\ LET r == slice_photo(photos[i + 1].image, DefaultNumSlices,
                            DefaultSliceLength, DefaultSliceStartX,
                            DefaultSliceStartY)
       IN  IF r.kind = "return"
           THEN /\ photo_slices' = [photo_slices EXCEPT ![i + 1] = r.photo_slice]
                /\ i' = i + 1
                /\ UNCHANGED <<pc, ret>>
           ELSE /\ pc' = "aborted"
                /\ ret' = r
                /\ UNCHANGED <<photo_slices, i>>
    /\ UNCHANGED <<args, photos, baseline, std, processed_slices, rqs, results>>

\* Lines 26-27, after the last iteration of the loading loop.
SubtractBaseline ==
    /\ pc = "load"
    /\ i = Len(photos)
    /\ LET r == leading_baseline(photo_slices, ScriptTriggerSample,
                                 ScriptStartSample, ScriptPretrExclSampl, FALSE)
       IN  /\ baseline' = r.means
           /\ std' = r.stds
           /\ processed_slices' =
                  [k \in 1..Len(r.means) |->
                      [j \in 1..Len(photo_slices[k]) |->
                          RSub(photo_slices[k][j], r.means[k])]]
    /\ i' = 0
    /\ pc' = "measure"
    /\ UNCHANGED <<args, ret, photos, photo_slices, datetimes, rqs, results>>

\* Lines 30-40: one iteration of the measuring loop.
MeasurePhoto ==
    /\ pc = "measure"
    /\ i < Len(photo_slices)
    /\ LET r == std_dev_pulsefinding(processed_slices[i + 1], std[i + 1],
                                     ScriptTriggerSample, ScriptSearchWindow,
                                     ScriptRisingThresh, ScriptFallingThresh)
       IN  IF r.kind # "return"
           THEN /\ pc' = "aborted"
                /\ ret' = r
                /\ UNCHANGED <<rqs, i>>
           ELSE IF Len(PulseWindow(processed_slices[i + 1], r.start, r.end)) = 0
           THEN /\ pc' = "aborted"
                /\ ret' = ValueError(39)    \* max() of an empty sequence
                /\ UNCHANGED <<rqs, i>>
           ELSE /\ rqs' = Append(rqs,
                      [datetime     |-> datetimes[i + 1],
                       ice_start    |-> r.start,
                       ice_end      |-> r.end,
                       pulse_height |-> PyMax(PulseWindow(processed_slices[i + 1],
                                                          r.start, r.end))])
                /\ i' = i + 1
                /\ UNCHANGED <<pc, ret>>
    /\ UNCHANGED <<args, photos, photo_slices, datetimes, baseline, std,
                   processed_slices, results>>

\* Lines 42-43, after the last iteration of the measuring loop.
SaveResults ==
    /\ pc = "measure"
    /\ i = Len(photo_slices)
    /\ results' = [saved |-> TRUE, rows |-> rqs]
    /\ pc' = "done"
    /\ UNCHANGED <<args, ret, photos, i, photo_slices, datetimes, baseline,
                   std, processed_slices, rqs>>

Next == LoadPhoto \/ SubtractBaseline \/ MeasurePhoto \/ SaveResults

Spec == Init /\ [][Next]_vars

(* Claims about the script *)

\* The Python indices k of profile p with lo <= k < hi.
IndexRange(p, lo, hi) == {k \in 0..(Len(p) - 1) : lo <= k /\ k < hi}

\* h is the greatest value of profile p over the indices S.
IsMaxOver(h, p, S) ==
    /\ \E k \in S : p[k + 1] = h
    /\ \A k \in S : ~RGt(p[k + 1], h)

\* C5 as amended: for every photo the script records, pulse_height is the
\* maximum of the baseline-subtracted profile over start_index <= k <
\* end_index, the sample at start_index included and the sample at end_index
\* excluded.
C5_HeightFromStart ==
    \A k \in 1..Len(rqs) :
        IsMaxOver(rqs[k].pulse_height, processed_slices[k],
                  IndexRange(processed_slices[k], rqs[k].ice_start,
                             rqs[k].ice_end))

\* A recorded photo whose pulse is more than one sample long and whose sample
\* at start_index is strictly greater than every later sample of the pulse.
C5_Witness ==
    \E k \in 1..Len(rqs) :
        /\ rqs[k].ice_end > rqs[k].ice_start + 1
        /\ rqs[k].pulse_height = processed_slices[k][rqs[k].ice_start + 1]
        /\ \A j \in IndexRange(processed_slices[k], rqs[k].ice_start + 1,
                               rqs[k].ice_end) :
               RLt(processed_slices[k][j + 1], rqs[k].pulse_height)

\* C5: for every photo the script records, pulse_height is the maximum of the
\* baseline-subtracted profile over the indices strictly between start_index
\* and end_index (stated where there is such an index).
C5_HeightStrictlyBetween ==
    \A k \in 1..Len(rqs) :
        rqs[k].ice_end > rqs[k].ice_start + 1 =>
            IsMaxOver(rqs[k].pulse_height, processed_slices[k],
                      IndexRange(processed_slices[k], rqs[k].ice_start + 1,
                                 rqs[k].ice_end))

Terminated == pc \in {"done", "aborted"}

\* C9: a run over n photos ends with a saved table of exactly n rows in input
\* order, row k built from photo k, whatever fails for a single photo.
C9_OneRowPerPhoto ==
    Terminated =>
        /\ results.saved
        /\ Len(results.rows) = Len(photos)
        /\ \A k \in 1..Len(photos) :
               results.rows[k].datetime = photos[k].datetime

====
